---- MODULE Spec2Model ----
(***************************************************************************)
(* Model of the Google search scraper: the REST scraper of                 *)
(* src/api/google_scraper_api.py and the tool-server scraper of            *)
(* src/mcp/google_scraper_mcp.py.                                          *)
(*                                                                         *)
(* Time is counted in half seconds: 2.0 s is 4, 0.5 s is 1, one hour is    *)
(* 7200.  Strings are sequences of one-character strings.                  *)
(***************************************************************************)
EXTENDS Integers, Sequences, FiniteSets, TLC

(***************************************************************************)
(* Bounds of the model.                                                    *)
(***************************************************************************)
\* ticks of the clock explored
Horizon == 9
\* ticks of the clock explored, before and after the idle hour, with one call
\* that is blocked again and again
LongHorizon == 19
\* ticks of the clock explored, before and after the idle hour, around a
\* pacing step
PacingHorizon == 3
\* largest num_results a caller asks for (the facade admits 1..50)
MaxNum == 2
\* fetch attempts of one Search call after which the target stops blocking
AttemptCap == 4
\* largest request counter the pacing arithmetic is explored with
MaxCount == 26

(***************************************************************************)
(* Program constants (times in half seconds).                              *)
(***************************************************************************)
BaseDelay == 4
JitterMin == 1
JitterMax == 5
Tier2Threshold == 20
Tier2Extra == 4
Tier1Threshold == 10
Tier1Extra == 2
Window == 7200
RetryMin == 6
RetryMax == 14
MaxCandidates == 20
MaxLevels == 5
Surplus == 5
AskCap == 50
McpAskCap == 20
MaxTextLen == 500
McpBaseDelay == 3
McpJitterMin == 1
McpJitterMax == 4
McpBusyThreshold == 10
McpBusyMin == 2
McpBusyMax == 6
McpMaxCandidates == 15

\* time.time() when the scraper object is constructed
StartTime == 100
\* direct calls: longest text, most href units after the scheme, most candidates
MaxText == 5
MaxUnits == 2
MaxCands == 2

Min(a, b) == IF a < b THEN a ELSE b

(***************************************************************************)
(* Strings.                                                                *)
(***************************************************************************)
Whitespace == {" ", "\t", "\n"}
\* \w of a str pattern: letters, digits and the underscore, of any script
WordChars == {"a", "b", "h", "t", "p", "s", "x", "q", "u", "r", "l", "A", "1", "_"}
Punctuation == {".", ",", "!", "?", ";", ":", "-", "(", ")", "'", "\""}
Accented == {"á", "ñ", "Ñ"}

StartsWith(s, p) == Len(s) >= Len(p) /\ SubSeq(s, 1, Len(p)) = p
Drop(s, n) == SubSeq(s, n + 1, Len(s))
Take(s, n) == SubSeq(s, 1, Min(n, Len(s)))

\* the part of s before the first occurrence of sep (all of s when there is none):
\* element [0] of s.split(sep)
RECURSIVE SplitHead(_, _)
SplitHead(s, sep) ==
    IF s = <<>> \/ StartsWith(s, sep) THEN <<>>
    ELSE <<Head(s)>> \o SplitHead(Tail(s), sep)

\* s.strip()
RECURSIVE LStrip(_)
LStrip(s) == IF s # <<>> /\ Head(s) \in Whitespace THEN LStrip(Tail(s)) ELSE s
RECURSIVE RStrip(_)
RStrip(s) ==
    IF s # <<>> /\ s[Len(s)] \in Whitespace THEN RStrip(SubSeq(s, 1, Len(s) - 1)) ELSE s
Strip(s) == RStrip(LStrip(s))

\* re.sub(r'\s+', ' ', s)
CollapseWs(s) ==
    LET FirstOfRun(i) == s[i] \notin Whitespace \/ i = 1 \/ s[i - 1] \notin Whitespace
        kept == SelectSeq([i \in 1..Len(s) |-> i], FirstOfRun)
    IN  [k \in 1..Len(kept) |-> IF s[kept[k]] \in Whitespace THEN " " ELSE s[kept[k]]]

Permitted(c) == c \in WordChars \cup Whitespace \cup Punctuation \cup Accented \cup {"@"}
McpPermitted(c) == c \in WordChars \cup Whitespace \cup Punctuation \cup Accented

clean_text(text) ==
    IF text = <<>> THEN <<>>
    ELSE Take(SelectSeq(CollapseWs(Strip(text)), Permitted), MaxTextLen)

mcp_clean_text(text) ==
    IF text = <<>> THEN <<>>
    ELSE SelectSeq(CollapseWs(Strip(text)), McpPermitted)

RedirectPrefix == <<"/", "u", "r", "l", "?", "q", "=">>
HttpPrefix == <<"h", "t", "t", "p">>
SearchPrefix == <<"/", "s", "e", "a", "r", "c", "h">>

\* href.split('/url?q=')[1].split('&')[0]: the text after the prefix, up to the
\* next occurrence of the prefix and then up to the first '&'
Unwrap(href) == SplitHead(SplitHead(Drop(href, Len(RedirectPrefix)), RedirectPrefix), <<"&">>)

extract_url(href) ==
    IF href = <<>> THEN <<>>
    ELSE IF StartsWith(href, RedirectPrefix) THEN Unwrap(href)
    ELSE IF StartsWith(href, HttpPrefix) THEN href
    ELSE IF StartsWith(href, SearchPrefix) THEN <<>>
    ELSE href

\* lines 127-130 of the tool-server parser: other hrefs leave url empty
mcp_extract_url(href) ==
    IF StartsWith(href, RedirectPrefix) THEN Unwrap(href)
    ELSE IF StartsWith(href, HttpPrefix) THEN href
    ELSE <<>>

(***************************************************************************)
(* Response bodies.  A body is the page text (a sequence of words) and the *)
(* title candidates the selectors find in it, in document order.  A        *)
(* candidate is the text of its h3 and the chain of its ancestors, from    *)
(* its parent up to the document object, whose own parent is None.  An     *)
(* ancestor is marked when it is a result block (a div of class g with a   *)
(* data-ved attribute, which both parsers recognise), and carries the      *)
(* first <a href> found inside it, if any.                                 *)
(***************************************************************************)
Ancestor(marked, has_link, href) == [marked |-> marked, has_link |-> has_link, href |-> href]

\* an h3 directly inside a result block that is directly inside the document
Cand(title, has_link, href) ==
    [title |-> title,
     chain |-> <<Ancestor(TRUE, has_link, href), Ancestor(FALSE, has_link, href)>>]

\* the same h3 with k unmarked elements holding no link between it and its block
Nested(c, k) ==
    [title |-> c.title,
     chain |-> [i \in 1..k |-> Ancestor(FALSE, FALSE, <<>>)] \o c.chain]

\* an h3 found by a selector whose match is no marked div ('.g .r h3' under
\* spans, 'div[data-hveid] h3'), k unmarked ancestors below the document
Bare(title, has_link, href, k) ==
    [title |-> title, chain |-> [i \in 1..(k + 1) |-> Ancestor(FALSE, has_link, href)]]

HrefDirect == <<"h", "t", "t", "p", "s", ":", "/", "/", "x">>
HrefWrapped == RedirectPrefix \o <<"h", "t", "t", "p", ":", "/", "/", "a", "&", "s", "=", "1">>
HrefInternal == SearchPrefix \o <<"?", "q", "=", "x">>
HrefRelative == <<"/", "x">>

TitleA == <<"a", "b">>
TitleSpaced == <<" ", "a", " ", "\t", "b", "\n">>
TitleSymbols == <<"#", "|">>
TitleHashes == <<"#", " ", "#">>

GoodA == Cand(TitleA, TRUE, HrefDirect)
GoodB == Cand(TitleSpaced, TRUE, HrefWrapped)
NoLink == Cand(TitleA, FALSE, <<>>)
Internal == Cand(TitleA, TRUE, HrefInternal)
Relative == Cand(TitleA, TRUE, HrefRelative)
NoTitle == Cand(TitleSymbols, TRUE, HrefDirect)
BlankTitle == Cand(TitleHashes, TRUE, HrefDirect)

PlainText == <<"results", "for", "x">>
BodyEmpty == [text |-> PlainText, cands |-> <<>>]
BodyThreeAndOne == [text |-> PlainText, cands |-> <<GoodA, NoLink, GoodB, GoodA>>]
BodyMixed == [text |-> PlainText, cands |-> <<NoTitle, GoodB, Internal, Relative, GoodA>>]
BodyLong == [text |-> PlainText, cands |-> [i \in 1..(MaxCandidates + 2) |-> GoodA]]
BodyUnusual ==
    [text |-> <<"We", "have", "Detected", "Unusual", "Traffic">>, cands |-> <<>>]
BodyCaptcha == [text |-> <<"solve", "the", "CAPTCHA">>, cands |-> <<GoodA, GoodB, GoodA>>]

Bodies == {BodyEmpty, BodyThreeAndOne, BodyMixed, BodyLong, BodyUnusual, BodyCaptcha}

\* html.lower(), word by word
LowerWord(w) ==
    CASE w = "Detected" -> "detected"
      [] w = "Unusual" -> "unusual"
      [] w = "Traffic" -> "traffic"
      [] w = "CAPTCHA" -> "captcha"
      [] w = "Captcha" -> "captcha"
      [] OTHER -> w
Lower(text) == [i \in 1..Len(text) |-> LowerWord(text[i])]

Contains(text, phrase) ==
    \E i \in 1..Len(text) :
        i + Len(phrase) - 1 <= Len(text) /\ SubSeq(text, i, i + Len(phrase) - 1) = phrase

\* the test of line 301
IsBlocked(text) ==
    \/ Contains(Lower(text), <<"detected", "unusual", "traffic">>)
    \/ Contains(Lower(text), <<"captcha">>)

\* whether the page text holds a block signal phrase in any letter case
HasBlockSignal(body) ==
    \E i \in 1..Len(body.text) :
        \/ body.text[i] \in {"captcha", "CAPTCHA", "Captcha"}
        \/ /\ i + 2 <= Len(body.text)
           /\ body.text[i] \in {"detected", "Detected"}
           /\ body.text[i + 1] \in {"unusual", "Unusual"}
           /\ body.text[i + 2] \in {"traffic", "Traffic"}

(***************************************************************************)
(* The result extractor.                                                   *)
(***************************************************************************)
\* lines 239-246: the record appended for an accepted candidate
Accept(results, title, url) ==
    Append(results, [title |-> title, url |-> url, position |-> Len(results) + 1])

\* lines 191-195: the index in the chain of the container the loop ends on; 0
\* when container.parent is None before that, and container.name raises
RECURSIVE Climb(_, _)
Climb(chain, level) ==
    IF level > Len(chain) THEN 0
    ELSE IF chain[level].marked \/ level = MaxLevels THEN level
    ELSE Climb(chain, level + 1)

\* one pass of the loop of lines 188-250; the except clause of lines 248-250
\* drops the candidate
ParseOne(results, c) ==
    LET at == Climb(c.chain, 1)
        title == clean_text(c.title)
        url == IF c.chain[at].has_link THEN extract_url(c.chain[at].href) ELSE <<>>
    IN  IF at = 0 THEN results
        ELSE IF title = <<>> THEN results
        ELSE IF title # <<>> /\ url # <<>> /\ StartsWith(url, HttpPrefix)
             THEN Accept(results, title, url)
             ELSE results

\* a loop that a rejected candidate ends
RECURSIVE ParseFromAborting(_, _, _)
ParseFromAborting(cands, i, results) ==
    IF i > Len(cands) \/ ParseOne(results, cands[i]) = results THEN results
    ELSE ParseFromAborting(cands, i + 1, ParseOne(results, cands[i]))

RECURSIVE ParseFrom(_, _, _)
ParseFrom(cands, i, results) ==
    IF i > Len(cands) THEN results
    ELSE ParseFrom(cands, i + 1, ParseOne(results, cands[i]))

parse_search_results(body) == ParseFrom(Take(body.cands, MaxCandidates), 1, <<>>)

\* line 114 of the tool-server parser: the candidates that lie in a result block
McpFound(c) == \E i \in 1..Len(c.chain) : c.chain[i].marked

\* the innermost result block of the candidate
McpContainer(c) ==
    c.chain[CHOOSE i \in 1..Len(c.chain) :
                /\ c.chain[i].marked
                /\ \A j \in 1..(i - 1) : ~c.chain[j].marked]

\* lines 118-150 of the tool-server parser
McpParseOne(results, c) ==
    LET title == mcp_clean_text(c.title)
        container == McpContainer(c)
        url == IF container.has_link /\ container.href # <<>>
               THEN mcp_extract_url(container.href) ELSE <<>>
    IN  IF title # <<>> /\ url # <<>> THEN Accept(results, title, url) ELSE results

RECURSIVE McpParseFrom(_, _, _)
McpParseFrom(cands, i, results) ==
    IF i > Len(cands) THEN results
    ELSE McpParseFrom(cands, i + 1, McpParseOne(results, cands[i]))

mcp_parse_search_results(body) ==
    McpParseFrom(Take(SelectSeq(body.cands, McpFound), McpMaxCandidates), 1, <<>>)

(***************************************************************************)
(* State.                                                                  *)
(***************************************************************************)
Tasks == {"s1", "s2"}
Domains == {"www.google.com", "www.google.es"}
Statuses == {200, 204, 302, 429, 503}
Faults == {"timeout", "connect", "dns"}

VARIABLES
    env,                \* the inputs the environment draws from (fixed by Init)
    now,                \* time.time()
    ticks,              \* clock ticks taken since the start or the idle hour
    jumped,             \* whether the idle hour has passed
    session,            \* scraper.session: 0 is None, else the session's number
    created,            \* number of ClientSession objects created so far
    closed,             \* the sessions whose .closed is true
    last_request_time,  \* scraper.last_request_time
    request_count,      \* scraper.request_count
    rate_limit_reset,   \* scraper.rate_limit_reset
    pc,                 \* where each endpoint call stands
    num,                \* num_results of each call
    attempts,           \* fetches issued by each call
    wake,               \* when the call's asyncio.sleep ends
    pace,               \* locals of the call's last pacing step
    used,               \* the local `session` of the call's fetch
    domain,             \* the local `domain` of the call's fetch
    gap,                \* time between the call's last fetch and the fetch before it
    fetched,            \* what the call's last fetch returned
    result,             \* what scraper.search returned to the endpoint
    reply,              \* what the endpoint handed to its client
    rpc,                \* where the reset endpoint stands
    stopped,            \* whether the shutdown handler has run
    args,               \* query, site and filetype of each call of search
    params,             \* the query parameters of the call's fetch
    arg,                \* the argument of a direct call of an extractor function
    ret                 \* what that call returned

vars == <<env, now, ticks, jumped, session, created, closed, last_request_time, request_count,
          rate_limit_reset, pc, num, attempts, wake, pace, used, domain, gap, fetched,
          result, reply, rpc, stopped, args, params, arg, ret>>

clockVars == <<now, ticks, jumped>>
sessionVars == <<session, created, closed>>
pacingVars == <<last_request_time, request_count, rate_limit_reset>>
fetchVars == <<used, domain, gap, attempts, params>>
outVars == <<fetched, result, reply>>
adminVars == <<rpc, stopped>>
callVars == <<arg, ret>>

NoPace == [before |-> 0, count |-> 0, jitter |-> 0, delay |-> 0, reset |-> FALSE]
NoFetch == [kind |-> "none"]
NoResult == [pending |-> TRUE]
NoArgs == [query |-> <<>>, site |-> "", filetype |-> ""]
NoParams == [q |-> <<>>, num |-> 0]
NoCall == [kind |-> "none"]

InitTasks ==
    /\ pc = [t \in Tasks |-> "idle"]
    /\ num = [t \in Tasks |-> 0]
    /\ args = [t \in Tasks |-> NoArgs]
    /\ params = [t \in Tasks |-> NoParams]
    /\ attempts = [t \in Tasks |-> 0]
    /\ wake = [t \in Tasks |-> 0]
    /\ pace = [t \in Tasks |-> NoPace]
    /\ used = [t \in Tasks |-> 0]
    /\ domain = [t \in Tasks |-> "none"]
    /\ gap = [t \in Tasks |-> 0]
    /\ fetched = [t \in Tasks |-> NoFetch]
    /\ result = [t \in Tasks |-> NoResult]
    /\ reply = [t \in Tasks |-> NoResult]
    /\ rpc = "idle"
    /\ stopped = FALSE

\* no extractor function is called on its own
InitCalls == arg = NoCall /\ ret = NoCall

\* one endpoint call, with every input
SingleEnv ==
    [horizon |-> Horizon, tasks |-> {"s1"}, nums |-> 1..MaxNum,
     jitters |-> {JitterMin, JitterMax}, extras |-> {RetryMin},
     sites |-> {""}, filetypes |-> {""},
     domains |-> Domains, faults |-> Faults, statuses |-> Statuses, bodies |-> Bodies]

\* two concurrent endpoint calls
ConcurrentEnv ==
    [horizon |-> Horizon, tasks |-> Tasks, nums |-> {MaxNum},
     jitters |-> {JitterMin, JitterMax}, extras |-> {RetryMin},
     sites |-> {""}, filetypes |-> {""},
     domains |-> {"www.google.com"}, faults |-> {"timeout"}, statuses |-> {200, 503},
     bodies |-> {BodyThreeAndOne, BodyUnusual}]

\* GoogleScraper.__init__ and the module-level instance
InitScraper ==
    /\ now = StartTime
    /\ ticks = 0
    /\ jumped = FALSE
    /\ session = 0
    /\ created = 0
    /\ closed = {}
    /\ last_request_time = 0
    /\ request_count = 0
    /\ rate_limit_reset = StartTime
    /\ InitTasks

Init == env = SingleEnv /\ InitScraper /\ InitCalls

\* one endpoint call whose every response is a 200 with a block signal
BlockedEnv ==
    [horizon |-> LongHorizon, tasks |-> {"s1"}, nums |-> 1..MaxNum,
     jitters |-> JitterMin..JitterMax, extras |-> RetryMin..RetryMax,
     sites |-> {""}, filetypes |-> {""},
     domains |-> Domains, faults |-> {}, statuses |-> {200},
     bodies |-> {BodyUnusual, BodyCaptcha}]

InitBlocked == env = BlockedEnv /\ InitScraper /\ InitCalls

\* the pacing step alone, with every jitter
PacingEnv ==
    [horizon |-> PacingHorizon, tasks |-> Tasks, nums |-> {1},
     jitters |-> JitterMin..JitterMax,
     extras |-> {RetryMin}, sites |-> {""}, filetypes |-> {""},
     domains |-> {"www.google.com"}, faults |-> {}, statuses |-> {200},
     bodies |-> {BodyEmpty}]

\* the slowest pacing: a request every BaseDelay + Tier2Extra + JitterMax
SlowSpacing == BaseDelay + Tier2Extra + JitterMax

\* the scraper after request_count requests made one after the other, each
\* SlowSpacing after the one before, the last of them BaseDelay ago
InitPacing ==
    /\ env = PacingEnv
    /\ request_count \in 0..MaxCount
    /\ rate_limit_reset = StartTime
    /\ last_request_time =
           IF request_count = 0 THEN 0 ELSE StartTime + SlowSpacing * (request_count - 1)
    /\ now = IF request_count = 0 THEN StartTime ELSE last_request_time + BaseDelay
    /\ ticks = 0
    /\ jumped = FALSE
    /\ session = IF request_count = 0 THEN 0 ELSE 1
    /\ created = session
    /\ closed = {}
    /\ InitTasks
    /\ InitCalls

InitConcurrent == env = ConcurrentEnv /\ InitScraper /\ InitCalls

(***************************************************************************)
(* The clock.                                                              *)
(***************************************************************************)
\* the clock is followed while a call is still to be made or under way
Tick ==
    /\ ticks < env.horizon
    /\ \E t \in env.tasks : pc[t] # "done"
    /\ now' = now + 1
    /\ ticks' = ticks + 1
    /\ UNCHANGED <<env, callVars, jumped, sessionVars, pacingVars, pc, num, args, wake, pace,
                   fetchVars, outVars, adminVars>>

\* an hour in which no task runs
IdleHour ==
    /\ ~jumped
    /\ \A t \in env.tasks : pc[t] \in {"idle", "done"}
    /\ rpc \in {"idle", "done"}
    /\ now' = now + Window
    /\ ticks' = 0
    /\ jumped' = TRUE
    /\ UNCHANGED <<env, callVars, sessionVars, pacingVars, pc, num, args, wake, pace, fetchVars,
                   outVars, adminVars>>

(***************************************************************************)
(* Pacing controller: smart_delay.                                         *)
(***************************************************************************)
\* the comparison with its operands exchanged: the window never elapses
WindowElapsedSwapped(current_time, reset_time) == reset_time - current_time > Window

\* line 118
WindowElapsed(current_time, reset_time) == current_time - reset_time > Window

\* the tiers entered at their thresholds rather than above them
DelayIncrementInclusive(count) ==
    IF count >= Tier2Threshold THEN Tier2Extra
    ELSE IF count >= Tier1Threshold THEN Tier1Extra
    ELSE 0

\* lines 127-130
DelayIncrement(count) ==
    IF count > Tier2Threshold THEN Tier2Extra
    ELSE IF count > Tier1Threshold THEN Tier1Extra
    ELSE 0

\* lines 123-132
TotalDelay(count, random_delay) == BaseDelay + DelayIncrement(count) + random_delay

\* the caller's search term, and a modifier appended to it
Term(w) == [kind |-> "term", value |-> w]
Modifier(kind, value) == [kind |-> kind, value |-> value]
Query == <<Term("x")>>

\* params['q'], lines 264 and 273-276
BuildQuery(a) ==
    a.query \o (IF a.site # "" THEN <<Modifier("site:", a.site)>> ELSE <<>>)
            \o (IF a.filetype # "" THEN <<Modifier("filetype:", a.filetype)>> ELSE <<>>)

\* lines 263-270
Params(a, n) == [q |-> BuildQuery(a), num |-> Min(n + Surplus, AskCap)]

\* lines 165-171 of the tool server
McpParams(a, n) == [q |-> a.query, num |-> Min(n, McpAskCap)]

\* a get_session that replaces the session only when there is none
NeedSessionWhenNone == session = 0

\* get_session: the session the next fetch runs on
NeedSession == session = 0 \/ session \in closed
SessionToUse == IF NeedSession THEN created + 1 ELSE session

\* lines 139-140 of smart_delay, then lines 259-296 of search up to the fetch's
\* suspension: no await in between yields to the event loop
Issue(t, count, p) ==
    /\ last_request_time' = now
    /\ request_count' = count + 1
    /\ session' = SessionToUse
    /\ created' = IF NeedSession THEN created + 1 ELSE created
    /\ closed' = closed
    /\ used' = [used EXCEPT ![t] = SessionToUse]
    /\ \E d \in env.domains : domain' = [domain EXCEPT ![t] = d]
    /\ attempts' = [attempts EXCEPT ![t] = @ + 1]
    /\ gap' = [gap EXCEPT ![t] = now - last_request_time]
    /\ params' = [params EXCEPT ![t] = p]
    /\ pc' = [pc EXCEPT ![t] = "fetching"]
    /\ UNCHANGED wake

\* smart_delay up to its suspension (lines 114-137), and on to the fetch when it
\* does not suspend
smart_delay(t, a, n) ==
    \E random_delay \in env.jitters :
        LET elapsed == WindowElapsed(now, rate_limit_reset)
            count == IF elapsed THEN 0 ELSE request_count
            total_delay == TotalDelay(count, random_delay)
            time_since_last == now - last_request_time
        IN  /\ rate_limit_reset' = IF elapsed THEN now ELSE rate_limit_reset
            /\ pace' = [pace EXCEPT ![t] = [before |-> request_count, count |-> count,
                                            jitter |-> random_delay,
                                            delay |-> total_delay, reset |-> elapsed]]
            /\ IF time_since_last < total_delay
               THEN /\ wake' = [wake EXCEPT ![t] = now + (total_delay - time_since_last)]
                    /\ pc' = [pc EXCEPT ![t] = "sleeping"]
                    /\ request_count' = count
                    /\ UNCHANGED <<last_request_time, sessionVars, fetchVars>>
               ELSE Issue(t, count, Params(a, n))

\* an endpoint calls scraper.search (lines 392, 402, 425, 445)
Start(t) ==
    /\ t \in env.tasks
    /\ pc[t] = "idle"
    /\ ~stopped
    /\ \E n \in env.nums, site \in env.sites, filetype \in env.filetypes :
          LET a == [query |-> Query, site |-> site, filetype |-> filetype]
          IN  /\ num' = [num EXCEPT ![t] = n]
              /\ args' = [args EXCEPT ![t] = a]
              /\ smart_delay(t, a, n)
    /\ UNCHANGED <<env, callVars, clockVars, outVars, adminVars>>

\* asyncio.sleep of line 137 returns
Wake(t) ==
    /\ pc[t] = "sleeping"
    /\ now >= wake[t]
    /\ Issue(t, request_count, Params(args[t], num[t]))
    /\ UNCHANGED <<env, callVars, clockVars, rate_limit_reset, num, args, pace, outVars,
                   adminVars>>

(***************************************************************************)
(* Search orchestrator: the fetch and what follows it.                     *)
(***************************************************************************)
\* f'HTTP {response.status}'
HttpError(status) ==
    CASE status = 204 -> "HTTP 204"
      [] status = 302 -> "HTTP 302"
      [] status = 429 -> "HTTP 429"
      [] status = 503 -> "HTTP 503"
      [] OTHER -> "HTTP 200"

\* str(e) of the exception a fetch raises; the total timeout raises
\* asyncio.TimeoutError(), which has no message
FaultStr(fault) ==
    CASE fault = "timeout" -> ""
      [] fault = "connect" -> "Cannot connect to host"
      [] fault = "dns" -> "Name or service not known"
      [] OTHER -> "Server disconnected"

\* the success response without the cut to the requested count
SearchSuccessUncut(results, num_results, source) ==
    [success |-> TRUE, query |-> "q", results_count |-> Len(results),
     results |-> results, timestamp |-> "now", source |-> source,
     total_found |-> Len(results)]

\* lines 308-316
SearchSuccess(results, num_results, source) ==
    [success |-> TRUE, query |-> "q", results_count |-> Len(results),
     results |-> Take(results, num_results), timestamp |-> "now", source |-> source,
     total_found |-> Len(results)]

\* lines 319-324 and 328-333
SearchFailure(error) ==
    [success |-> FALSE, error |-> error, query |-> "q", timestamp |-> "now"]

\* a handler that lets the fault through to the caller of search
OnFaultRaise(fault) == [raised |-> TRUE, fault |-> fault]

\* lines 326-333: except Exception
OnFault(fault) == SearchFailure(FaultStr(fault))

\* a search that retries on every response it cannot parse
ClassifyRetryAll(status, body) ==
    IF status = 200 /\ ~IsBlocked(body.text) THEN "parse" ELSE "retry"

\* lines 297-317: what search does with a response
Classify(status, body) ==
    IF status = 200
    THEN IF IsBlocked(body.text) THEN "retry" ELSE "parse"
    ELSE "http_error"

\* the fields SearchResponse requires (lines 57-64); error has a default
RequiredFields == {"success", "query", "results_count", "results", "timestamp", "source"}

\* lines 391-396: SearchResponse(**result), or HTTP 500 on any exception
Endpoint(res) ==
    IF "raised" \in DOMAIN res THEN [status |-> 500, detail |-> "fault"]
    ELSE IF RequiredFields \subseteq DOMAIN res
    THEN [status |-> 200,
          body |-> [f \in RequiredFields \cup {"error"} |->
                        IF f \in DOMAIN res THEN res[f] ELSE "None"]]
    ELSE [status |-> 500, detail |-> "validation error"]

\* search returns res (or raises) and the endpoint answers
Return(t, res) ==
    /\ result' = [result EXCEPT ![t] = res]
    /\ reply' = [reply EXCEPT ![t] = Endpoint(res)]
    /\ pc' = [pc EXCEPT ![t] = "done"]
    /\ wake' = [wake EXCEPT ![t] = 0]
    /\ pace' = [pace EXCEPT ![t] = NoPace]
    /\ used' = [used EXCEPT ![t] = 0]
    /\ gap' = [gap EXCEPT ![t] = 0]
    /\ params' = [params EXCEPT ![t] = NoParams]
    /\ UNCHANGED <<domain, attempts, args>>

\* line 304: _retry_with_different_domain receives the arguments search was
\* called with, not the query it built from them
RetryCallBuilt(a, q) == [a EXCEPT !.query = q]
RetryCall(a, q) == a

Fetched(kind, status, body, t) ==
    [kind |-> kind, status |-> status, signal |-> HasBlockSignal(body),
     midflight |-> used[t] \in closed, attempt |-> attempts[t],
     q |-> params[t].q, num |-> params[t].num]

\* the fetch of line 296 ends: a fault, or a response
FetchReturn(t) ==
    /\ pc[t] = "fetching"
    /\ \/ \E f \in (IF used[t] \in closed THEN {"closed"} ELSE env.faults) :
            /\ fetched' = [fetched EXCEPT ![t] = Fetched("fault", 0, BodyEmpty, t)]
            /\ Return(t, OnFault(f))
       \/ /\ used[t] \notin closed
          /\ \E status \in env.statuses, body \in env.bodies :
                LET what == Classify(status, body)
                IN  /\ fetched' = [fetched EXCEPT ![t] = Fetched(what, status, body, t)]
                    /\ CASE what = "retry" ->
                              \* _retry_with_different_domain, line 338
                              /\ attempts[t] < AttemptCap
                              /\ \E extra \in env.extras :
                                    wake' = [wake EXCEPT ![t] = now + extra]
                              /\ pc' = [pc EXCEPT ![t] = "retry_sleep"]
                              /\ args' = [args EXCEPT ![t] = RetryCall(@, params[t].q)]
                              /\ UNCHANGED <<result, reply, pace, fetchVars>>
                         [] what = "parse" ->
                              Return(t, SearchSuccess(parse_search_results(body), num[t],
                                                      domain[t]))
                         [] OTHER -> Return(t, SearchFailure(HttpError(status)))
    /\ UNCHANGED <<env, callVars, clockVars, sessionVars, pacingVars, num, adminVars>>

\* line 339: the extra delay is over and search runs again
RetryWake(t) ==
    /\ pc[t] = "retry_sleep"
    /\ now >= wake[t]
    /\ smart_delay(t, args[t], num[t])
    /\ UNCHANGED <<env, callVars, clockVars, num, args, outVars, adminVars>>

(***************************************************************************)
(* Reset endpoint and shutdown.                                            *)
(***************************************************************************)
\* GoogleScraper.close awaits session.close() (line 343)
CloseAwaits == session # 0 /\ session \notin closed

\* lines 473-476
ResetState ==
    /\ session' = 0
    /\ request_count' = 0
    /\ rate_limit_reset' = now
    /\ rpc' = "done"

ResetStart ==
    /\ rpc = "idle"
    /\ ~stopped
    /\ IF CloseAwaits
       THEN /\ closed' = closed \cup {session}
            /\ rpc' = "closing"
            /\ UNCHANGED <<session, request_count, rate_limit_reset>>
       ELSE ResetState /\ closed' = closed
    /\ UNCHANGED <<env, callVars, clockVars, created, last_request_time, pc, num, args, wake,
                   pace, fetchVars, outVars, stopped>>

ResetFinish ==
    /\ rpc = "closing"
    /\ ResetState
    /\ UNCHANGED <<env, callVars, clockVars, created, closed, last_request_time, pc, num, args,
                   wake, pace, fetchVars, outVars, stopped>>

\* shutdown_event, lines 366-368
Shutdown ==
    /\ ~stopped
    /\ stopped' = TRUE
    /\ closed' = IF CloseAwaits THEN closed \cup {session} ELSE closed
    /\ UNCHANGED <<env, callVars, clockVars, session, created, pacingVars, pc, num, args, wake,
                   pace, fetchVars, outVars, rpc>>

NextSearch ==
    \/ Tick
    \/ \E t \in env.tasks : Start(t)
    \/ \E t \in env.tasks : Wake(t)
    \/ \E t \in env.tasks : FetchReturn(t)
    \/ \E t \in env.tasks : RetryWake(t)

Next ==
    \/ NextSearch
    \/ ResetStart
    \/ ResetFinish
    \/ Shutdown

\* the tool server's scraper: two tool calls
McpEnv ==
    [horizon |-> Horizon, tasks |-> Tasks, nums |-> 1..MaxNum,
     jitters |-> {McpJitterMin, McpJitterMax}, busy |-> {McpBusyMin, McpBusyMax},
     domains |-> {"www.google.com"}, faults |-> {"timeout"}, statuses |-> {200, 503},
     bodies |-> {BodyThreeAndOne, BodyCaptcha, BodyUnusual}]

InitMcp == env = McpEnv /\ InitScraper /\ InitCalls

\* delay_request, lines 81-97 of the tool server, and on to the fetch when it does
\* not suspend
delay_request(t, a, n) ==
    \E random_delay \in env.jitters, busy_delay \in env.busy :
        LET min_delay == McpBaseDelay + random_delay
                         + (IF request_count > McpBusyThreshold THEN busy_delay ELSE 0)
            time_since_last == now - last_request_time
        IN  /\ pace' = [pace EXCEPT ![t] = [before |-> request_count,
                                            count |-> request_count,
                                            jitter |-> random_delay, delay |-> min_delay,
                                            reset |-> FALSE]]
            /\ IF time_since_last < min_delay
               THEN /\ wake' = [wake EXCEPT ![t] = now + (min_delay - time_since_last)]
                    /\ pc' = [pc EXCEPT ![t] = "sleeping"]
                    /\ UNCHANGED <<last_request_time, request_count, sessionVars, fetchVars>>
               ELSE Issue(t, request_count, McpParams(a, n))

\* handle_call_tool calls scraper.search (lines 297 and 323)
McpStart(t) ==
    /\ pc[t] = "idle"
    /\ \E n \in env.nums :
          LET a == [query |-> Query, site |-> "", filetype |-> ""]
          IN  /\ num' = [num EXCEPT ![t] = n]
              /\ args' = [args EXCEPT ![t] = a]
              /\ delay_request(t, a, n)
    /\ UNCHANGED <<env, callVars, clockVars, rate_limit_reset, outVars, adminVars>>

\* lines 184-191 of the tool server
McpSearchSuccess(results, num_results, source) ==
    [success |-> TRUE, query |-> "q", results_count |-> Len(results),
     results |-> Take(results, num_results), timestamp |-> "now", source |-> source]

\* lines 179-198 of the tool server: what search does with a response
McpClassify(status, body) == IF status = 200 THEN "parse" ELSE "http_error"

\* handle_call_tool, lines 297-301: json.dumps(result) as the tool's text
ToolReply(res) == [text |-> res]

McpReturn(t, res) ==
    /\ result' = [result EXCEPT ![t] = res]
    /\ reply' = [reply EXCEPT ![t] = ToolReply(res)]
    /\ pc' = [pc EXCEPT ![t] = "done"]
    /\ wake' = [wake EXCEPT ![t] = 0]
    /\ pace' = [pace EXCEPT ![t] = NoPace]
    /\ used' = [used EXCEPT ![t] = 0]
    /\ gap' = [gap EXCEPT ![t] = 0]
    /\ params' = [params EXCEPT ![t] = NoParams]
    /\ UNCHANGED <<domain, attempts, args>>

\* the fetch of line 179 of the tool server ends
McpFetchReturn(t) ==
    /\ pc[t] = "fetching"
    /\ \/ \E f \in env.faults :
            /\ fetched' = [fetched EXCEPT ![t] = Fetched("fault", 0, BodyEmpty, t)]
            /\ McpReturn(t, OnFault(f))
       \/ \E status \in env.statuses, body \in env.bodies :
            LET what == McpClassify(status, body)
            IN  /\ fetched' = [fetched EXCEPT ![t] = Fetched(what, status, body, t)]
                /\ IF what = "parse"
                   THEN McpReturn(t, McpSearchSuccess(mcp_parse_search_results(body),
                                                     num[t], domain[t]))
                   ELSE McpReturn(t, SearchFailure(HttpError(status)))
    /\ UNCHANGED <<env, callVars, clockVars, sessionVars, pacingVars, num, adminVars>>

\* asyncio.sleep of line 94 of the tool server returns
McpWake(t) ==
    /\ pc[t] = "sleeping"
    /\ now >= wake[t]
    /\ Issue(t, request_count, McpParams(args[t], num[t]))
    /\ UNCHANGED <<env, callVars, clockVars, rate_limit_reset, num, args, pace, outVars,
                   adminVars>>

NextMcp ==
    \/ Tick
    \/ \E t \in env.tasks : McpStart(t)
    \/ \E t \in env.tasks : McpWake(t)
    \/ \E t \in env.tasks : McpFetchReturn(t)

\* the tool server
SpecMcp == InitMcp /\ [][NextMcp]_vars

NextPacing ==
    \/ Tick
    \/ IdleHour
    \/ \E t \in env.tasks : Start(t)
    \/ \E t \in env.tasks : Wake(t)

\* the pacing controller from every request counter up to MaxCount
SpecPacing == InitPacing /\ [][NextPacing]_vars

\* one endpoint call that is blocked at every attempt
SpecBlocked == InitBlocked /\ [][NextSearch]_vars

\* one endpoint call, the reset endpoint and shutdown
Spec == Init /\ [][Next]_vars

\* two endpoint calls in progress at once
SpecConcurrent == InitConcurrent /\ [][NextSearch]_vars

\* two endpoint calls with modifiers, over both mirrors, blocked at will
RetryEnv ==
    [horizon |-> Horizon, tasks |-> Tasks, nums |-> {1},
     jitters |-> {JitterMin, JitterMax}, extras |-> {RetryMin},
     sites |-> {"", "a.com"}, filetypes |-> {"pdf"},
     domains |-> Domains, faults |-> {}, statuses |-> {200},
     bodies |-> {BodyThreeAndOne, BodyUnusual}]

InitRetry == env = RetryEnv /\ InitScraper /\ InitCalls

\* two endpoint calls and their retries
SpecRetry == InitRetry /\ [][NextSearch]_vars

\* two endpoint calls around the reset endpoint
ResetEnv ==
    [horizon |-> Horizon, tasks |-> Tasks, nums |-> {MaxNum},
     jitters |-> {JitterMax}, extras |-> {RetryMin},
     sites |-> {""}, filetypes |-> {""},
     domains |-> {"www.google.com"}, faults |-> {}, statuses |-> {200},
     bodies |-> {BodyThreeAndOne, BodyUnusual}]

InitReset == env = ResetEnv /\ InitScraper /\ InitCalls

\* the endpoints of the API server: /search twice, /reset and shutdown
SpecReset == InitReset /\ [][Next]_vars

(***************************************************************************)
(* The extractor's functions called on their own, on every input of a      *)
(* bounded set.                                                            *)
(***************************************************************************)
RECURSIVE Flatten(_)
Flatten(ss) == IF ss = <<>> THEN <<>> ELSE Head(ss) \o Flatten(Tail(ss))

SeqsUpTo(S, n) == UNION {[1..k -> S] : k \in 0..n}

\* element texts: a word character, two kinds of whitespace, a character
\* outside the permitted set, and the one the tool server does not permit
TextAlphabet == {"a", " ", "\t", "#", "@"}
LongText == [i \in 1..(MaxTextLen + 1) |-> "a"]
Texts == SeqsUpTo(TextAlphabet, MaxText) \cup {LongText, TitleSpaced, TitleSymbols}

\* hrefs: plain or wrapped in the redirect prefix, of several schemes and of
\* none, followed by path characters, delimiters and further prefixes
Schemes ==
    {<<>>, <<"h", "t", "t", "p", ":", "/", "/">>, <<"h", "t", "t", "p", "s", ":", "/", "/">>,
     <<"f", "t", "p", ":", "/", "/">>, <<"h", "t", "t", "p", "_">>, SearchPrefix, <<"/">>}
HrefUnits == {<<"x">>, <<"&">>, <<"?">>, RedirectPrefix}
Hrefs ==
    {wrap \o scheme \o Flatten(rest) :
        wrap \in {<<>>, RedirectPrefix}, scheme \in Schemes,
        rest \in SeqsUpTo(HrefUnits, MaxUnits)}

HrefFtpWrapped == RedirectPrefix \o <<"f", "t", "p", ":", "/", "/", "a", "&", "s", "=", "1">>
HrefWrappedInternal == RedirectPrefix \o HrefInternal
HrefHttpFile == <<"h", "t", "t", "p", "_", "x">>

FtpWrapped == Cand(TitleA, TRUE, HrefFtpWrapped)
WrappedInternal == Cand(TitleA, TRUE, HrefWrappedInternal)
HttpFile == Cand(TitleA, TRUE, HrefHttpFile)
\* a result block MaxLevels levels above its h3, and one level further up
Deep == Nested(GoodA, MaxLevels - 1)
TooDeep == Nested(GoodA, MaxLevels)
\* no marked ancestor, below the document directly and MaxLevels levels down
Unmarked == Bare(TitleA, TRUE, HrefDirect, 1)
UnmarkedDeep == Bare(TitleA, TRUE, HrefDirect, MaxLevels)

Candidates ==
    {GoodA, GoodB, NoLink, Internal, Relative, NoTitle, FtpWrapped, WrappedInternal,
     HttpFile, Deep, TooDeep, Unmarked, UnmarkedDeep, BlankTitle}
Pages ==
    {[text |-> PlainText, cands |-> cs] : cs \in SeqsUpTo(Candidates, MaxCands)}
        \cup {BodyThreeAndOne, BodyMixed, BodyLong}

Call(kind, value) == [kind |-> kind, value |-> value]
Inputs ==
    {Call("text", t) : t \in Texts} \cup {Call("href", h) : h \in Hrefs}
        \cup {Call("page", b) : b \in Pages}

ExtractEnv ==
    [horizon |-> 0, tasks |-> {}, nums |-> {}, jitters |-> {}, extras |-> {}, domains |-> {},
     sites |-> {}, filetypes |-> {}, faults |-> {}, statuses |-> {}, bodies |-> {}]

InitExtract == env = ExtractEnv /\ InitScraper /\ arg \in Inputs /\ ret = NoCall

\* f is called on the argument and returns
Returns(kind, by, value) ==
    /\ arg.kind = kind
    /\ ret = NoCall
    /\ ret' = [of |-> kind, by |-> by, value |-> value]
    /\ UNCHANGED <<env, arg, clockVars, sessionVars, pacingVars, pc, num, args, wake, pace,
                   fetchVars, outVars, adminVars>>

CleanText == Returns("text", "api", clean_text(arg.value))
McpCleanText == Returns("text", "mcp", mcp_clean_text(arg.value))
ExtractUrl == Returns("href", "api", extract_url(arg.value))
McpExtractUrl == Returns("href", "mcp", mcp_extract_url(arg.value))
Parse == Returns("page", "api", parse_search_results(arg.value))
McpParse == Returns("page", "mcp", mcp_parse_search_results(arg.value))

NextExtract ==
    \/ CleanText
    \/ McpCleanText
    \/ ExtractUrl
    \/ McpExtractUrl
    \/ Parse
    \/ McpParse

\* the extractor of both scrapers
SpecExtract == InitExtract /\ [][NextExtract]_vars

(***************************************************************************)
(* Properties.                                                             *)
(***************************************************************************)
Done(t) == pc[t] = "done"
Succeeded(t) == Done(t) /\ "success" \in DOMAIN result[t] /\ result[t].success
Raised(t) == Done(t) /\ "raised" \in DOMAIN result[t]

\* C1: a Search call whose every response is a 200 with a block signal makes at
\* most N = 3 fetch attempts (and then returns a failure response)
C1_AttemptsBounded == \A t \in Tasks : attempts[t] <= 3

\* C2: in every success response the results are at most the requested count
\* and carry the positions 1, 2, ..., in order
C2_PositionsDense ==
    \A t \in Tasks :
        Succeeded(t) =>
            /\ Len(result[t].results) <= num[t]
            /\ \A i \in 1..Len(result[t].results) : result[t].results[i].position = i
            /\ reply[t].status = 200 => reply[t].body.results = result[t].results

\* a success response cut to the requested count, out of a page with more
C2_Witness ==
    \E t \in Tasks :
        /\ Succeeded(t)
        /\ Len(result[t].results) = num[t]
        /\ result[t].total_found > num[t]
        /\ num[t] > 1

\* C3: every failure outcome (a non-success status or a transport fault) reaches
\* the endpoint's client as a SearchResponse with success false, an error
\* description and no results, never as an HTTP 500
C3_FailureIsResponse ==
    \A t \in Tasks :
        (Done(t) /\ fetched[t].kind \in {"fault", "http_error"}) =>
            /\ reply[t].status = 200
            /\ reply[t].body.success = FALSE
            /\ reply[t].body.error # "None"
            /\ reply[t].body.results = <<>>

\* C4: a request is issued at least its computed delay (never less than 2.5 s)
\* after the request issued before it, whichever calls issued the two
C4_Paced ==
    \A t \in Tasks :
        pc[t] = "fetching" => gap[t] >= pace[t].delay /\ gap[t] >= 5

\* C5: no success response comes from a body that holds a block signal phrase
C5_SuccessFromCleanBody ==
    \A t \in Tasks : Succeeded(t) => ~fetched[t].signal

\* the error string of a failure for a non-2xx status
StatusText(status) ==
    CASE status = 302 -> "HTTP 302"
      [] status = 429 -> "HTTP 429"
      [] status = 503 -> "HTTP 503"
      [] OTHER -> "?"

\* C6: a fetch that returns a non-2xx status ends the call with a failure
\* response whose error records the status, and the call fetches no more
C6_StatusFailsWithoutRetry ==
    [][\A t \in Tasks :
          /\ (/\ pc[t] = "fetching"
              /\ pc'[t] # "fetching"
              /\ fetched'[t].kind # "fault"
              /\ fetched'[t].status \notin 200..299)
             => /\ pc'[t] = "done"
                /\ "raised" \notin DOMAIN result'[t]
                /\ result'[t].success = FALSE
                /\ result'[t].error = StatusText(fetched'[t].status)
                /\ attempts'[t] = attempts[t]
          /\ Done(t) => pc'[t] = "done" /\ attempts'[t] = attempts[t]]_vars

\* a call that ended on a 503 answered to its second fetch
C6_Witness ==
    \E t \in Tasks :
        /\ Done(t)
        /\ fetched[t].kind = "http_error"
        /\ fetched[t].status = 503
        /\ attempts[t] = 2
        /\ result[t].error = "HTTP 503"

\* C7: a transport fault at any attempt becomes a failure response with a
\* descriptive error string; it is not raised to the caller and not retried
C7_FaultDescribed ==
    \A t \in Tasks :
        (Done(t) /\ fetched[t].kind = "fault") =>
            /\ ~Raised(t)
            /\ result[t].success = FALSE
            /\ attempts[t] = fetched[t].attempt
            /\ result[t].error # ""

\* the pacing step a call has computed and not yet left behind
Pacing(t) == pc[t] \in {"sleeping", "fetching"}

\* C8: the delay is 2.0 s plus a jitter of 0.5..2.5 s, plus 2.0 s over 20
\* requests, else plus 1.0 s over 10: 2.5..4.5 s at counter 0, 4.5..6.5 s at
\* counter 25 within the window, and never less for a larger counter
C8_DelayTiers ==
    \A t \in Tasks :
        Pacing(t) =>
            LET p == pace[t]
            IN  /\ p.jitter \in 1..5
                /\ p.delay = 4 + p.jitter
                               + (IF p.count > 20 THEN 4 ELSE IF p.count > 10 THEN 2 ELSE 0)
                /\ p.count = 0 => p.delay \in 5..9
                /\ (p.before = 25 /\ ~p.reset) => p.delay \in 9..13
                /\ \A u \in Tasks :
                      (Pacing(u) /\ p.count <= pace[u].count) =>
                          p.delay - p.jitter <= pace[u].delay - pace[u].jitter

\* a call paced at counter 25 within the window, with the largest jitter
C8_Witness ==
    \E t \in Tasks :
        /\ pc[t] = "sleeping"
        /\ pace[t].before = 25
        /\ ~pace[t].reset
        /\ pace[t].delay = 13

\* a call enters the pacing controller in this step
PacingStarts(t) == pc[t] \in {"idle", "retry_sleep"} /\ pc'[t] \in {"sleeping", "fetching"}

\* C9: a pacing step that starts more than an hour after the reset timestamp
\* zeroes the counter and sets the timestamp to now before the increment is
\* computed, so the request is paced at the base tier; one that starts less
\* than an hour after it leaves both alone
C9_HourlyReset ==
    [][\A t \in Tasks :
          PacingStarts(t) =>
              /\ now - rate_limit_reset > 7200 =>
                    /\ rate_limit_reset' = now
                    /\ pace'[t].count = 0
                    /\ pace'[t].delay \in 5..9
                    /\ request_count' \in {0, 1}
              /\ now - rate_limit_reset < 7200 =>
                    /\ rate_limit_reset' = rate_limit_reset
                    /\ pace'[t].count = request_count
                    /\ request_count' \in {request_count, request_count + 1}]_vars

\* a call paced at the base tier after the hour, the counter having been 25
C9_Witness ==
    \E t \in Tasks :
        /\ Pacing(t)
        /\ pace[t].before = 25
        /\ pace[t].reset
        /\ pace[t].count = 0
        /\ rate_limit_reset > StartTime + 7200

\* C10: a Search whose fetch was in flight when the session was closed
\* returns a failure response and raises nothing, and the closing endpoint
\* goes on to complete
C10_ClosedMidFlightFailsCleanly ==
    /\ \A t \in Tasks :
          (Done(t) /\ fetched[t].midflight) =>
              /\ ~Raised(t)
              /\ result[t].success = FALSE
              /\ "error" \in DOMAIN result[t]
    /\ rpc = "closing" => ENABLED ResetFinish

\* the reset endpoint has closed the session under a fetch, and both are over
C10_Witness ==
    \E t \in Tasks :
        /\ Done(t)
        /\ fetched[t].midflight
        /\ rpc = "done"
        /\ ~stopped

\* the reset endpoint answers in this step
ResetCompletes == rpc # "done" /\ rpc' = "done"

\* no request has been issued since the reset endpoint answered
FreshAfterReset == rpc = "done" /\ request_count = 0

\* C11: when the reset endpoint completes the session is unset and the request
\* counter is 0, and the first Search after it is paced as on a fresh scraper,
\* whose last-request timestamp owes no wait: it goes straight to its fetch,
\* on a session created for it
C11_ResetZeroesPacing ==
    [][/\ ResetCompletes => (session' = 0 /\ request_count' = 0)
       /\ \A t \in Tasks :
             (FreshAfterReset /\ PacingStarts(t)) =>
                 /\ pc'[t] = "fetching"
                 /\ created' = created + 1
                 /\ used'[t] = created']_vars

\* the records a direct call of either parser returned
Records == IF ret # NoCall /\ ret.of = "page" THEN ret.value ELSE <<>>

IsHttpUrl(url) ==
    \/ StartsWith(url, <<"h", "t", "t", "p", ":", "/", "/">>)
    \/ StartsWith(url, <<"h", "t", "t", "p", "s", ":", "/", "/">>)

\* C12: every record either parser emits has a url that starts with http:// or
\* https://; none carries a relative link, a /search link or an unwrapped
\* target of another scheme
C12_UrlsAbsolute == \A i \in 1..Len(Records) : IsHttpUrl(Records[i].url)

\* C13: the fetch of every Search asks the target for min(count + 5, 50)
\* results, and the response holds at most the requested count of them
C13_RequestsSurplus ==
    \A t \in Tasks :
        /\ pc[t] = "fetching" =>
              params[t].num = (IF num[t] + 5 < 50 THEN num[t] + 5 ELSE 50)
        /\ Succeeded(t) => Len(result[t].results) <= num[t]

\* what a direct call of either clean_text returned
Cleaned == IF ret # NoCall /\ ret.of = "text" THEN ret.value ELSE <<>>

Blank(text) == \A i \in 1..Len(text) : text[i] \in Whitespace

\* C14: the normalized text has no two whitespace characters in a row, no
\* whitespace at either end, only permitted characters and at most 500
\* characters, for every input; so the title of a record is never empty or
\* made of whitespace only
C14_NormalForm ==
    /\ \A i \in 1..(Len(Cleaned) - 1) :
          ~(Cleaned[i] \in Whitespace /\ Cleaned[i + 1] \in Whitespace)
    /\ Cleaned # <<>> => (Cleaned[1] \notin Whitespace /\ Cleaned[Len(Cleaned)] \notin Whitespace)
    /\ \A i \in 1..Len(Cleaned) : Permitted(Cleaned[i])
    /\ Len(Cleaned) <= 500
    /\ \A i \in 1..Len(Records) : ~Blank(Records[i].title)

\* the text of s before its first c, all of s when it holds none
Before(s, c) ==
    LET found == {i \in 1..Len(s) : s[i] = c}
    IN  IF found = {} THEN s
        ELSE SubSeq(s, 1, (CHOOSE i \in found : \A j \in found : i <= j) - 1)

\* C15: extract_url returns the text between the prefix /url?q= and the next &
\* for an href that starts with the prefix, an href that starts with http://
\* or https:// unchanged, and the empty string for an href that starts with
\* /search and for the empty href
C15_Unwraps ==
    (ret # NoCall /\ ret.of = "href" /\ ret.by = "api") =>
        LET href == arg.value
        IN  /\ StartsWith(href, <<"/", "u", "r", "l", "?", "q", "=">>) =>
                  ret.value = Before(Drop(href, 7), "&")
            /\ IsHttpUrl(href) => ret.value = href
            /\ StartsWith(href, <<"/", "s", "e", "a", "r", "c", "h">>) => ret.value = <<>>
            /\ href = <<>> => ret.value = <<>>

\* what the API parser makes of a page that holds the candidate c alone
Alone(c) == parse_search_results([text |-> PlainText, cands |-> <<c>>])
AcceptedAlone(c) == Alone(c) # <<>>

\* C16: the API parser's records are those of the candidates it accepts, each
\* as if it stood alone, in source order and with positions 1, 2, ...: a
\* candidate that is rejected or raises neither ends the loop nor leaves a gap;
\* three well-formed blocks and one without a link give three records
C16_IsolatedInOrder ==
    (ret # NoCall /\ ret.of = "page" /\ ret.by = "api") =>
        LET kept == SelectSeq(Take(arg.value.cands, 20), AcceptedAlone)
        IN  /\ Len(ret.value) = Len(kept)
            /\ \A i \in 1..Len(ret.value) :
                  /\ i <= Len(kept)
                  /\ ret.value[i].position = i
                  /\ ret.value[i].title = Alone(kept[i])[1].title
                  /\ ret.value[i].url = Alone(kept[i])[1].url
            /\ arg.value.cands = <<GoodA, NoLink, GoodB, GoodA>> =>
                  /\ Len(ret.value) = 3
                  /\ ret.value[2].url = <<"h", "t", "t", "p", ":", "/", "/", "a">>

\* the API parser has returned three records for the page of three well-formed
\* blocks and a link-less one
C16_Witness ==
    /\ arg = Call("page", BodyThreeAndOne)
    /\ ret # NoCall
    /\ ret.by = "api"
    /\ Len(ret.value) = 3
    /\ ret.value[3].position = 3

\* C17: the API parser looks for the container of a title among its first 5
\* ancestors only, and a candidate with no recognisable ancestor there, or with
\* fewer than 5 ancestors, is still processed with an ancestor as container:
\* when each of those ancestors holds the link, the record is emitted, and when
\* none of them holds a link, no record is
C17_ContainerFallback ==
    (ret # NoCall /\ ret.of = "page" /\ ret.by = "api" /\ Len(arg.value.cands) = 1) =>
        LET c == arg.value.cands[1]
            levels == 1..Min(5, Len(c.chain))
        IN  /\ (/\ c.title = TitleA
                /\ \A i \in levels : c.chain[i].has_link /\ c.chain[i].href = HrefDirect)
                   => (Len(ret.value) = 1 /\ ret.value[1].url = HrefDirect)
            /\ (\A i \in levels : ~c.chain[i].has_link) => ret.value = <<>>

\* the call issues a fetch in this step
Issues(t) == attempts'[t] = attempts[t] + 1

SessionOpen == session # 0 /\ session \notin closed

\* C18: sessions are created only by a Search that finds none open; a Search
\* that finds the session open fetches on it; one that finds it absent or
\* closed creates a new, open session and fetches on that; every fetch starts
\* on a session that is open; and closing when there is no open session
\* changes nothing
C18_SessionLifecycle ==
    [][/\ \A t \in Tasks :
             Issues(t) =>
                 /\ used'[t] = session'
                 /\ used'[t] \notin closed'
                 /\ SessionOpen => (session' = session /\ created' = created)
                 /\ ~SessionOpen => (created' = created + 1 /\ session' = created')
       /\ (\A t \in Tasks : ~Issues(t)) => created' = created
       /\ ((stopped' # stopped \/ rpc' # rpc) /\ ~SessionOpen) => closed' = closed]_vars

\* the reset endpoint has closed the first session and a later Search fetches
\* on a second one
C18_Witness ==
    /\ rpc = "done"
    /\ 1 \in closed
    /\ created = 2
    /\ session = 2
    /\ \E t \in Tasks : pc[t] = "fetching" /\ used[t] = 2 /\ attempts[t] = 1

\* C19: in every success response results_count is the number of records in
\* results, and so at most the requested count
C19_CountMatchesResults ==
    \A t \in Tasks :
        Succeeded(t) =>
            /\ result[t].results_count = Len(result[t].results)
            /\ result[t].results_count <= num[t]

\* how many modifiers of the kind the query holds
Count(q, kind) == Cardinality({i \in 1..Len(q) : q[i].kind = kind})

\* C20: every fetch, first or retry, comes out of the pacing controller (it
\* starts when the call's sleep is over, or at once when the delay computed
\* for it has passed already), adds exactly one to the request counter, which
\* nothing else changes, and never moves the last-request timestamp back; it
\* is sent to a mirror of the list with the caller's term followed by each of
\* the caller's modifiers once; and a success response names the mirror of
\* the call's last fetch
C20_AttemptsPaced ==
    [][/\ \A t \in Tasks :
             Issues(t) =>
                 /\ pc[t] = "sleeping" => now >= wake[t]
                 /\ pc[t] # "sleeping" =>
                       (pace'[t].delay \in 5..13 /\ now - last_request_time >= pace'[t].delay)
                 /\ request_count' = request_count + 1
                 /\ last_request_time' = now
                 /\ domain'[t] \in {"www.google.com", "www.google.es"}
                 /\ Head(params'[t].q) = [kind |-> "term", value |-> "x"]
                 /\ Count(params'[t].q, "term") = 1
                 /\ Count(params'[t].q, "site:") = (IF args'[t].site = "" THEN 0 ELSE 1)
                 /\ Count(params'[t].q, "filetype:") = (IF args'[t].filetype = "" THEN 0 ELSE 1)
       /\ \A t \in Tasks : (pc[t] = "retry_sleep" /\ pc'[t] # pc[t]) => PacingStarts(t)
       /\ (\A t \in Tasks : ~Issues(t)) => request_count' = request_count
       /\ last_request_time' >= last_request_time
       /\ request_count' = attempts'["s1"] + attempts'["s2"]
       /\ \A t \in Tasks :
             (~Done(t) /\ Succeeded(t)')
                 => (result'[t].source = domain[t] /\ fetched'[t].attempt = attempts[t])]_vars

\* a call with both modifiers, blocked on one mirror, has succeeded on the other
\* at its second fetch while the other call was under way
C20_Witness ==
    \E t \in Tasks, u \in Tasks :
        /\ Succeeded(t)
        /\ attempts[t] = 2
        /\ attempts[u] >= 1
        /\ ~Done(u)
        /\ args[t].site = "a.com"
        /\ Len(fetched[t].q) = 3
        /\ result[t].source = "www.google.es"

\* the sessions created so far that are still open
OpenSessions == {s \in 1..created : s \notin closed}

\* C21: every open session is the one the scraper refers to; the reset
\* endpoint, when its close() returns, keeps the reference to an open session
\* that a Search created meanwhile; and shutdown leaves no session open
C21_NoSessionLeaked ==
    [][/\ OpenSessions' \subseteq {session'}
       /\ (rpc = "closing" /\ rpc' = "done" /\ SessionOpen) => session' = session
       /\ (~stopped /\ stopped') => OpenSessions' = {}]_vars

====
